---- MODULE Spec2Model ----
(***************************************************************************)
(* Model of the VN-Index status-bar application.                           *)
(*                                                                         *)
(*   helper.py          fetch_stock_data, fetch_stock_data_safari_fallback,*)
(*                      fetch_stock_data_with_fallback                     *)
(*   safari_scraper.py  SafariStockScraper.scrape_vndirect_index,          *)
(*                      _try_alternative_extraction, _extract_from_html,   *)
(*                      fetch_stock_data_safari                            *)
(*   main.py            VNIndexApp (menu handlers, update_index_value,     *)
(*                      fetch_index)                                       *)
(*                                                                         *)
(* Spec      one data-retrieval call, statement by statement, from the     *)
(*           HTTP request down to the HTML regular expressions.            *)
(* SpecCalc  the change calculation and the status line, on every row     *)
(*           list up to MaxRows.                                           *)
(* SpecApp   the application: the menu and timer handlers, and up to       *)
(*           MaxCycles fetch_index threads running interleaved.            *)
(*                                                                         *)
(* Numbers are integers in thousandths (1250500 is 1250.5).  An optional   *)
(* field or an optional return value is a sequence: <<>> when it is        *)
(* absent (None, NaN, a missing key), <<v>> when it holds v.               *)
(***************************************************************************)
EXTENDS Integers, Sequences, FiniteSets, TLC

\* ------------------------------------------------------------- bounds
\* Longest row list the price API answers with.
MaxRows == 2
\* Number of text segments a page source is put together from.
MaxSegs == 3
\* Number of refresh cycles started in one run of the application.
MaxCycles == 2

\* ---------------------------------------------------------- constants
\* safari_scraper.py:307, the plausible range of an index, in units.
MinIndex == 500
MaxIndex == 2000
\* helper.py:14, the only HTTP status read as success.
HTTP_OK == 200

None == <<>>
Some(v) == <<v>>
Milli(units) == units * 1000

\* ------------------------------------------------------- price rows
\* A price row as main.py reads it: open and close, and the optional
\* explicit change columns.  origin records which source built the row.
Row(o, h, l, c, d, ch, pct, src, org) ==
    [open |-> o, high |-> h, low |-> l, close |-> c, date |-> d,
     change |-> ch, changePercent |-> pct, source |-> src, origin |-> org]

Max(a, b) == IF a >= b THEN a ELSE b
Min(a, b) == IF a <= b THEN a ELSE b

OpenVals == {Milli(90), Milli(100)}
CloseVals == {Milli(95), Milli(100), Milli(110)}
ChangeVals == {None, Some(Milli(-2)), Some(Milli(3))}
PctVals == {None, Some(-1500)}

ApiRows ==
    {Row(o, Max(o, c), Min(o, c), c, "day", ch, pct, None, "api") :
        o \in OpenVals, c \in CloseVals, ch \in ChangeVals, pct \in PctVals}

\* The row lists a JSON "data" array can hold, the empty one included.
SeqsUpTo(S, n) == UNION {[1..k -> S] : k \in 0..n}
ApiData == SeqsUpTo(ApiRows, MaxRows)

\* ---------------------------------------------- HTTP client (helper.py)
\* What requests.get can do: fail before any response arrives, or hand
\* back a response with a status and a body.  A body is a JSON object
\* with a "data" array, a JSON object without one, or not JSON at all.
Bodies ==
    {[json |-> TRUE, data |-> Some(d)] : d \in ApiData}
        \cup {[json |-> TRUE, data |-> None], [json |-> FALSE, data |-> None]}

\* The body of an error answer is only printed.
ErrorBodies == {[json |-> FALSE, data |-> None]}

Responses ==
    {[net |-> "down", status |-> 0, body |-> [json |-> FALSE, data |-> None]]}
        \cup {[net |-> "up", status |-> HTTP_OK, body |-> b] : b \in Bodies}
        \cup {[net |-> "up", status |-> 500, body |-> b] : b \in ErrorBodies}

Returned(v) == [raised |-> "none", val |-> v]
Raised(e) == [raised |-> e, val |-> <<>>]

\* response.json().get("data", [])
JsonData(body) ==
    IF ~body.json THEN Raised("JSONDecodeError")
    ELSE IF body.data = None THEN Returned(<<>>)
    ELSE Returned(body.data[1])

\* fetch_stock_data: requests.get is not guarded, so its exception
\* leaves the function; so does the one of response.json().
fetch_stock_data(resp) ==
    IF resp.net = "down" THEN Raised("ConnectionError")
    ELSE IF resp.status = HTTP_OK THEN JsonData(resp.body)
    ELSE Returned(<<>>)

\* `if not data:` in fetch_stock_data_with_fallback
NeedsFallbackAlways(data) == TRUE
NeedsFallback(data) == data = <<>>

\* ------------------------------------- HTML fallback (safari_scraper.py)
\* A page source is a sequence of characters.  "S" stands for one
\* occurrence of the index symbol (matched whatever its case), "x" for
\* any other character that is no digit, comma, dot or line break, and
\* "nl" for a line break.
Digits == <<"0", "1", "2", "3", "4", "5", "6", "7", "8", "9">>
IsDigit(c) == \E i \in 1..10 : Digits[i] = c
DigitVal(c) == (CHOOSE i \in 1..10 : Digits[i] = c) - 1
\* the character class [0-9,]
IsNumChar(c) == IsDigit(c) \/ c = ","

Segments ==
    { <<"S">>, <<"x">>, <<"nl">>,
      <<"5", "0", "0", "0", ".", "0", "0">>,
      <<"1", ",", "2", "5", "0", ".", "5", "0">>,
      <<"4", "9", "9", ".", "9", "9">>,
      <<"2", "0", "0", "0", ".", "0", "0", "1">>,
      <<"5", "0", "0", ".", "0", "0">>,
      <<"1">> }

RECURSIVE Concat(_)
Concat(ss) == IF ss = <<>> THEN <<>> ELSE Head(ss) \o Concat(Tail(ss))
Pages == {Concat(ss) : ss \in SeqsUpTo(Segments, MaxSegs)}

\* Last index of the run of [0-9,] characters that starts at j (j - 1
\* when h[j] is no such character).
RECURSIVE RunEnd(_, _)
RunEnd(h, j) ==
    IF j <= Len(h) /\ IsNumChar(h[j]) THEN RunEnd(h, j + 1) ELSE j - 1

DigitAt(h, k) == k <= Len(h) /\ IsDigit(h[k])

\* [0-9,]{1,maxInt}\.[0-9]{2,3} matched at exactly j (maxInt = 0: [0-9,]+).
\* Both quantifiers are greedy, and the run can only end at the dot.
\* The index of the last matched character, 0 when there is no match.
NumEnd(h, j, maxInt) ==
    LET e == RunEnd(h, j)
    IN  IF /\ e >= j
           /\ (maxInt = 0 \/ e - j + 1 <= maxInt)
           /\ e + 1 <= Len(h) /\ h[e + 1] = "."
           /\ DigitAt(h, e + 2) /\ DigitAt(h, e + 3)
        THEN IF DigitAt(h, e + 4) THEN e + 4 ELSE e + 3
        ELSE 0

\* `.*?` then the number: the first j >= from, with no line break before
\* it, where the number matches; 0 when there is none.
RECURSIVE FirstNum(_, _)
FirstNum(h, from) ==
    IF from > Len(h) THEN 0
    ELSE IF NumEnd(h, from, 0) > 0 THEN from
    ELSE IF h[from] = "nl" THEN 0
    ELSE FirstNum(h, from + 1)

\* re.findall(rf'{index_symbol}.*?([0-9,]+\.[0-9]{{2,3}})', html, re.IGNORECASE)
RECURSIVE SymbolMatches(_, _)
SymbolMatches(h, i) ==
    IF i > Len(h) THEN <<>>
    ELSE IF h[i] = "S" /\ FirstNum(h, i + 1) > 0
         THEN LET j == FirstNum(h, i + 1)
                  e == NumEnd(h, j, 0)
              IN  <<SubSeq(h, j, e)>> \o SymbolMatches(h, e + 1)
         ELSE SymbolMatches(h, i + 1)

\* re.findall(r'([0-9,]{1,4}\.[0-9]{2,3})', html, re.IGNORECASE)
RECURSIVE BareMatches(_, _)
BareMatches(h, i) ==
    IF i > Len(h) THEN <<>>
    ELSE IF NumEnd(h, i, 4) > 0
         THEN <<SubSeq(h, i, NumEnd(h, i, 4))>> \o BareMatches(h, NumEnd(h, i, 4) + 1)
         ELSE BareMatches(h, i + 1)

\* float(match.replace(',', '')), in thousandths.
RECURSIVE DigitsVal(_, _)
DigitsVal(m, acc) ==
    IF m = <<>> THEN acc
    ELSE IF Head(m) = "," THEN DigitsVal(Tail(m), acc)
    ELSE DigitsVal(Tail(m), 10 * acc + DigitVal(Head(m)))

DotAt(m) == CHOOSE k \in 1..Len(m) : m[k] = "."

ParseFloat(m) ==
    LET k == DotAt(m)
        frac == SubSeq(m, k + 1, Len(m))
    IN  1000 * DigitsVal(SubSeq(m, 1, k - 1), 0)
          + (IF Len(frac) = 2 THEN 10 ELSE 1) * DigitsVal(frac, 0)

\* `if 500 <= value <= 2000:`
InRangeNoUpper(value) == Milli(MinIndex) <= value
InRange(value) == Milli(MinIndex) <= value /\ value <= Milli(MaxIndex)

\* What the scraper hands back for one index: the dict of
\* scrape_vndirect_index.
\* A key of a dict: absent, or present with a value that may be null.
Absent == [key |-> FALSE, v |-> None]
Key(v) == [key |-> TRUE, v |-> v]
\* dict.get(key, default)
Get(f, default) == IF f.key THEN f.v ELSE default

Scraped(v, ch, pct, src, note) ==
    [value |-> v, change |-> ch, changePercent |-> pct, source |-> src,
     timestamp |-> Key(Some("now")), note |-> note]

HtmlHit(value) ==
    Scraped(Key(Some(value)), Key(Some(0)), Key(Some(0)),
            Key(Some("VNDirect (Safari HTML)")),
            Key(Some("Partial data extracted from HTML")))

\* The two loops of _extract_from_html: the first match in range, over
\* the matches of the first pattern and then those of the second.
RECURSIVE FirstInRange(_)
FirstInRange(matches) ==
    IF matches = <<>> THEN None
    ELSE IF InRange(ParseFloat(Head(matches)))
         THEN Some(HtmlHit(ParseFloat(Head(matches))))
         ELSE FirstInRange(Tail(matches))

extract_from_html(html) ==
    FirstInRange(SymbolMatches(html, 1) \o BareMatches(html, 1))

\* ------------------------------ in-page extraction (safari_scraper.py)
NoDict == Scraped(Absent, Absent, Absent, Absent, Absent)
JsSource == Key(Some("VNDirect (Safari)"))
ScrapedValues == {Milli(1250) + 500}
FieldVals == {Absent, Key(None), Key(Some(Milli(-2))), Key(Some(Milli(3)))}
PctFieldVals == {Absent, Key(None), Key(Some(-1500)), Key(Some(2250))}

\* The dicts extractIndexData() builds when it finds a value ...
FoundDicts ==
    {Scraped(Key(Some(v)), ch, pct, JsSource, Absent) :
        v \in ScrapedValues, ch \in FieldVals, pct \in PctFieldVals}
\* ... and when it finds none: no value key, a NaN value (null in JSON),
\* or a zero.
EmptyDicts ==
    {Scraped(v, Absent, Absent, JsSource, Absent) :
        v \in {Absent, Key(None), Key(Some(0))}}

\* What safari_script.call('executeJavaScript', ...) can give back:
\*   raise       the call throws
\*   errstr      a string that starts with 'ERROR:'
\*   badjson     a string that is no JSON
\*   json_other  a string holding JSON that is no object (a list, a number)
\*   json_obj    a string holding a JSON object; err: it has an 'error' key
\*   dict        a dict
\*   other       neither a string nor a dict
JsResult(t, err, d) == [t |-> t, err |-> err, d |-> d]
JsResults ==
    {JsResult(t, FALSE, NoDict) : t \in {"raise", "errstr", "badjson", "json_other", "other"}}
        \cup {JsResult(t, TRUE, NoDict) : t \in {"json_obj", "dict"}}
        \cup {JsResult("json_obj", FALSE, d) : d \in FoundDicts \cup EmptyDicts}
        \cup {JsResult("dict", FALSE, d) :
                 d \in {Scraped(Absent, Absent, Absent, JsSource, Absent)}
                          \cup {Scraped(Key(Some(v)), Absent, Absent, JsSource, Absent) :
                                   v \in ScrapedValues}}

\* Python truth of an optional number: None and 0 are false.
Truthy(opt) == opt # None /\ opt[1] # 0

\* scrape_vndirect_index after the script ran: where the result sends it.
JsOutcomeErrorIgnored(r) ==
    IF r.t \in {"raise", "errstr", "badjson", "json_other", "other"} THEN "Failed"
    ELSE IF Truthy(Get(r.d.value, None)) THEN "Extracted"
    ELSE "HtmlFallback"
JsOutcome(r) ==
    IF r.t = "raise" THEN "Failed"
    ELSE IF r.t = "errstr" THEN "Failed"
    ELSE IF r.t = "badjson" THEN "Failed"
    ELSE IF r.t = "other" THEN "Failed"
    ELSE IF r.t = "json_other" THEN "Failed"
    ELSE IF r.err THEN "Failed"
    ELSE IF Truthy(Get(r.d.value, None)) THEN "Extracted"
    ELSE "HtmlFallback"

\* What the page-source call of _try_alternative_extraction can give back.
PageResult(t, html) == [t |-> t, html |-> html]
PageResults ==
    {PageResult(t, <<>>) : t \in {"raise", "errstr", "other"}}
        \cup {PageResult("html", h) : h \in Pages}

\* _try_alternative_extraction
try_alternative_extraction(p) ==
    IF p.t = "html" THEN extract_from_html(p.html) ELSE None

\* The list fetch_stock_data_safari builds from what the scraper returned.
SafariRow(d) ==
    Row(Get(d.value, Some(0))[1], Get(d.value, Some(0))[1], Get(d.value, Some(0))[1],
        Get(d.value, Some(0))[1], Get(d.timestamp, Some(""))[1],
        Get(d.change, Some(0)), Get(d.changePercent, Some(0)),
        Get(d.source, Some("Safari")), "scraper")

\* The same list without the test of line 356.
SafariRowsUnchecked(scr) == <<SafariRow(IF scr = None THEN NoDict ELSE scr[1])>>
SafariRows(scr) ==
    IF scr # None /\ Truthy(Get(scr[1].value, None)) THEN <<SafariRow(scr[1])>> ELSE <<>>

\* The except clauses of fetch_stock_data_safari_fallback.
SafariFallbackReraises(e) == Raised(e)
SafariFallbackOnError(e) == Returned(<<>>)

\* ------------------------------------ change and status line (main.py)
\* An exact quotient n / d, d > 0: what a float holds, without its error.
Ratio(n, d) == [n |-> n, d |-> d]
AbsRatio(q) == Ratio(IF q.n < 0 THEN -q.n ELSE q.n, q.d)

\* f"{x:.2f}" of a quotient that is not negative: the number of hundredths
\* printed, rounded to nearest, an exact tie going to the even digit.
Fmt2(q) ==
    LET whole == (q.n * 100) \div q.d
        rest == (q.n * 100) % q.d
    IN  IF 2 * rest > q.d THEN whole + 1
        ELSE IF 2 * rest = q.d THEN whole + (whole % 2)
        ELSE whole

Last(rows) == rows[Len(rows)]

\* main.py:106-108
PrevCloseOpenOnly(rows) == Last(rows).open
PrevClose(rows) ==
    IF Len(rows) > 1 THEN rows[Len(rows) - 1].close ELSE Last(rows).open

\* main.py:115-119: a column of the last row that is there and not NaN
\* replaces the derived number.
ExplicitIgnored(field, derived) == derived
Explicit(field, derived) == IF field # None THEN field[1] ELSE derived

PctField(row) ==
    IF row.changePercent = None THEN None
    ELSE Some(Ratio(row.changePercent[1], 1000))

\* main.py:100-119
compute_change(rows) ==
    LET latest_value == Last(rows).close
        prev_close == PrevClose(rows)
        change == latest_value - prev_close
        change_pct == Ratio(change * 100, prev_close)
    IN  [latest_value |-> latest_value,
         prev_close |-> prev_close,
         change |-> Explicit(Last(rows).change, change),
         change_pct |-> Explicit(PctField(Last(rows)), change_pct)]

NoChange == [latest_value |-> 0, prev_close |-> 0, change |-> 0, change_pct |-> Ratio(0, 1)]

\* main.py:122 and 130: the icon of the source preference.
SourceIcon(use_safari) == IF use_safari THEN "globe" ELSE "antenna"
\* main.py:124-127
TrendIcon(change) == IF change >= 0 THEN "up" ELSE "down"

ValueTitle(use_safari, index, c) ==
    [kind |-> "value", icon |-> SourceIcon(use_safari), index |-> index,
     value |-> Fmt2(Ratio(c.latest_value, 1000)), trend |-> TrendIcon(c.change),
     pct |-> Fmt2(AbsRatio(c.change_pct))]

\* main.py:130-131
ErrorTitle(use_safari, index) ==
    [kind |-> "error", icon |-> SourceIcon(use_safari), index |-> index,
     value |-> 0, trend |-> "none", pct |-> 0]

\* The title rumps shows before the first cycle wrote one.
AppName ==
    [kind |-> "name", icon |-> "none", index |-> "VN-Index",
     value |-> 0, trend |-> "none", pct |-> 0]

\* --------------------------------------- the retrieval as one function
\* The same calls with the scraper's environment given at once: whether
\* the module imports, whether the scraper object can be built, and what
\* scrape_vndirect_index returns.
Env(importable, constructs, scr) ==
    [importable |-> importable, constructs |-> constructs, scr |-> scr]

\* `from safari_scraper import fetch_stock_data_safari` and the call.
fetch_stock_data_safari(env) ==
    IF ~env.importable THEN Raised("ImportError")
    ELSE IF ~env.constructs THEN Raised("ScriptError")
    ELSE Returned(SafariRows(env.scr))

fetch_stock_data_safari_fallback(env) ==
    IF fetch_stock_data_safari(env).raised # "none"
    THEN SafariFallbackOnError(fetch_stock_data_safari(env).raised)
    ELSE fetch_stock_data_safari(env)

fetch_stock_data_with_fallback(r, env) ==
    IF fetch_stock_data(r).raised # "none" THEN fetch_stock_data(r)
    ELSE IF NeedsFallback(fetch_stock_data(r).val) THEN fetch_stock_data_safari_fallback(env)
    ELSE fetch_stock_data(r)

\* main.py:88-94
Retrieve(use_safari, r, env) ==
    IF use_safari THEN fetch_stock_data_safari(env)
    ELSE fetch_stock_data_with_fallback(r, env)

\* `except Exception`: everything raised here derives from Exception.
CatchesOnlyNoData(e) == e = "NoData"
Catches(e) ==
    e \in {"NoData", "ConnectionError", "JSONDecodeError", "ImportError", "ScriptError"}

\* ------------------------------------------------------- one retrieval
VARIABLES
    entry,      \* "fallback": fetch_stock_data_with_fallback, "safari": the scraper alone
    pc,         \* where the call is
    resp,       \* the HTTP response, once it arrived (<<>> before)
    data,       \* the local `data` of fetch_stock_data_with_fallback
    calls,      \* the sources called so far, in order
    phase,      \* the state of scrape_vndirect_index
    phases,     \* the states it went through
    js,         \* what the in-page script gave back (<<>> before)
    page,       \* what the page-source call gave back (<<>> before)
    scraped,    \* the return value of scrape_vndirect_index
    result,     \* the rows returned to the caller
    raised,     \* the exception that left the call ("none": none)
    caught      \* the exception fetch_stock_data_safari_fallback caught ("none": none)

rvars ==
    <<entry, pc, resp, data, calls, phase, phases, js, page, scraped, result, raised, caught>>

\* The change calculation on its own (main.py:96-127).
VARIABLES
    crows,      \* the rows handed to it
    cpc,        \* "rows", "computed", "again", "shown" ("off": not in use)
    cout,       \* latest value, prior close, change and percentage
    cagain,     \* the same, computed a second time
    ctitle      \* the line rendered from cout

cvars == <<crows, cpc, cout, cagain, ctitle>>

\* The application (main.py).
VARIABLES
    current_index,        \* self.current_index
    use_safari_scraper,   \* self.use_safari_scraper
    title,                \* self.title
    cycles,               \* the threads running fetch_index, in start order
    started               \* how many were started

avars == <<current_index, use_safari_scraper, title, cycles, started>>

vars == <<rvars, cvars, avars>>

ROff ==
    /\ entry = "none" /\ pc = "off" /\ resp = None /\ data = <<>> /\ calls = <<>>
    /\ phase = "NoScraper" /\ phases = <<>> /\ js = None /\ page = None
    /\ scraped = None /\ result = <<>> /\ raised = "none" /\ caught = "none"

COff ==
    /\ crows = <<>> /\ cpc = "off" /\ cout = NoChange /\ cagain = NoChange
    /\ ctitle = AppName

AOff ==
    /\ current_index = "VNINDEX" /\ use_safari_scraper = FALSE /\ title = AppName
    /\ cycles = <<>> /\ started = 0

ROnly == UNCHANGED <<cvars, avars>>
COnly == UNCHANGED <<rvars, avars>>
AOnly == UNCHANGED <<rvars, cvars>>

RInit ==
    /\ entry \in {"fallback", "safari"}
    /\ pc = "start"
    /\ resp = None
    /\ data = <<>>
    /\ calls = <<>>
    /\ phase = "NoScraper"
    /\ phases = <<>>
    /\ js = None
    /\ page = None
    /\ scraped = None
    /\ result = <<>>
    /\ raised = "none"
    /\ caught = "none"

\* helper.py:45, `data = fetch_stock_data(...)`.
CallApi ==
    /\ ROnly
    /\ pc = "start" /\ entry = "fallback"
    /\ \E r \in Responses :
         /\ resp' = Some(r)
         /\ calls' = Append(calls, "http")
         /\ IF fetch_stock_data(r).raised # "none"
            THEN /\ raised' = fetch_stock_data(r).raised
                 /\ pc' = "done"
                 /\ data' = data
            ELSE /\ data' = fetch_stock_data(r).val
                 /\ pc' = "check"
                 /\ raised' = raised
    /\ UNCHANGED <<entry, phase, phases, js, page, scraped, result, caught>>

\* helper.py:48-52.
CheckData ==
    /\ ROnly
    /\ pc = "check"
    /\ IF NeedsFallback(data)
       THEN /\ pc' = "import"
            /\ calls' = Append(calls, "scraper")
            /\ result' = result
       ELSE /\ pc' = "done"
            /\ result' = data
            /\ calls' = calls
    /\ UNCHANGED <<entry, resp, data, phase, phases, js, page, scraped, raised, caught>>

\* main.py:88-91, the scraper-only preference.
CallSafari ==
    /\ ROnly
    /\ pc = "start" /\ entry = "safari"
    /\ pc' = "import"
    /\ calls' = Append(calls, "scraper")
    /\ UNCHANGED <<entry, resp, data, phase, phases, js, page, scraped, result, raised, caught>>

\* An exception on the way to the scraper: fetch_stock_data_safari_fallback
\* catches it, main.py's direct call lets it through to fetch_index.
Escape(e) ==
    LET out == IF entry = "fallback" THEN SafariFallbackOnError(e) ELSE Raised(e)
    IN  /\ pc' = "done"
        /\ result' = out.val
        /\ raised' = out.raised
        /\ caught' = IF entry = "fallback" THEN e ELSE caught

\* `from safari_scraper import fetch_stock_data_safari`
ImportScraper ==
    /\ ROnly
    /\ pc = "import"
    /\ \E ok \in BOOLEAN :
         IF ok THEN pc' = "construct" /\ UNCHANGED <<result, raised, caught>>
         ELSE Escape("ImportError")
    /\ UNCHANGED <<entry, resp, data, calls, phase, phases, js, page, scraped>>

\* safari_scraper.py:351, `scraper = SafariStockScraper()`, outside the try.
Construct ==
    /\ ROnly
    /\ pc = "construct"
    /\ \E ok \in BOOLEAN :
         IF ok THEN /\ pc' = "scrape"
                    /\ phase' = "Idle"
                    /\ phases' = <<"Idle">>
                    /\ UNCHANGED <<result, raised, caught>>
         ELSE Escape("ScriptError") /\ UNCHANGED <<phase, phases>>
    /\ UNCHANGED <<entry, resp, data, calls, js, page, scraped>>

Enter(p) == phase' = p /\ phases' = Append(phases, p)

\* scrape_vndirect_index is called: it asks the browser for the page.
BeginScrape ==
    /\ ROnly
    /\ pc = "scrape" /\ phase = "Idle"
    /\ Enter("PageLoading")
    /\ UNCHANGED <<entry, pc, resp, data, calls, js, page, scraped, result, raised, caught>>

\* safari_scraper.py:102-115: openURLInSafari and getPageTitle return, or
\* one of them throws and the outer except returns None.  (The handler
\* openURLInSafari ends in `return true`, so `if not success` never holds.)
PageLoad ==
    /\ ROnly
    /\ pc = "scrape" /\ phase = "PageLoading"
    /\ \E o \in {"ok", "open_raises", "title_raises"} :
         IF o = "ok" THEN Enter("Extracting") ELSE Enter("Failed")
    /\ UNCHANGED <<entry, pc, resp, data, calls, js, page, scraped, result, raised, caught>>

\* safari_scraper.py:225-261.
Extract ==
    /\ ROnly
    /\ pc = "scrape" /\ phase = "Extracting"
    /\ \E r \in JsResults :
         /\ js' = Some(r)
         /\ Enter(JsOutcome(r))
         /\ scraped' = IF JsOutcome(r) = "Extracted" THEN Some(r.d) ELSE None
    /\ UNCHANGED <<entry, pc, resp, data, calls, page, result, raised, caught>>

\* safari_scraper.py:263-324.
AltExtract ==
    /\ ROnly
    /\ pc = "scrape" /\ phase = "HtmlFallback"
    /\ \E p \in PageResults :
         /\ page' = Some(p)
         /\ scraped' = try_alternative_extraction(p)
         /\ Enter(IF try_alternative_extraction(p) = None THEN "Failed" ELSE "Extracted")
    /\ UNCHANGED <<entry, pc, resp, data, calls, js, result, raised, caught>>

\* safari_scraper.py:356-371, and the return through the callers.
Wrap ==
    /\ ROnly
    /\ pc = "scrape" /\ phase \in {"Extracted", "Failed"}
    /\ result' = SafariRows(scraped)
    /\ pc' = "done"
    /\ UNCHANGED <<entry, resp, data, calls, phase, phases, js, page, scraped, raised, caught>>

RNext ==
    \/ CallApi
    \/ CheckData
    \/ CallSafari
    \/ ImportScraper
    \/ Construct
    \/ BeginScrape
    \/ PageLoad
    \/ Extract
    \/ AltExtract
    \/ Wrap

Init == RInit /\ COff /\ AOff

Spec == Init /\ [][RNext]_vars

\* ------------------------------------------- claims about the retrieval
Called(source) == \E k \in 1..Len(calls) : calls[k] = source
TimesCalled(source) == Cardinality({k \in 1..Len(calls) : calls[k] = source})
HttpAnswered == resp # None /\ resp[1].net = "up"
\* The HTTP client returned, and returned no rows.
HttpReturnedEmpty == resp # None /\ fetch_stock_data(resp[1]) = Returned(<<>>)

\* C1: when the request fails with a network error, fetch_stock_data
\* returns the empty sequence instead of raising, and
\* fetch_stock_data_with_fallback goes on to call the scraper.
C1_NetworkFailureFallsBack ==
    (resp # None /\ resp[1].net = "down") =>
        /\ raised = "none"
        /\ data = <<>>
        /\ pc = "done" => Called("scraper")

\* C2: for every HTTP response received fetch_stock_data returns a
\* sequence and does not raise: the payload's data field on status 200
\* (empty when the field is absent), the empty sequence on any other.
C2_EveryResponseYieldsSequence ==
    HttpAnswered =>
        /\ raised = "none"
        /\ data = IF resp[1].status = 200 /\ resp[1].body.data # None
                  THEN resp[1].body.data[1]
                  ELSE <<>>

\* C3: fetch_stock_data_with_fallback calls the HTTP client first, calls
\* the scraper if and only if the HTTP client's result is empty, and
\* returns only HTTP rows or only scraper rows.
C3_PrimaryThenSecondary ==
    entry = "fallback" =>
        /\ calls # <<>> => calls[1] = "http"
        /\ TimesCalled("http") <= 1
        /\ Called("scraper") => (resp # None /\ raised = "none" /\ data = <<>>)
        /\ pc = "done" =>
             /\ TimesCalled("http") = 1
             /\ Called("scraper") <=> (raised = "none" /\ data = <<>>)
             /\ IF Called("scraper")
                THEN \A k \in 1..Len(result) : result[k].origin = "scraper"
                ELSE result = data /\ \A k \in 1..Len(result) : result[k].origin = "api"

C3_Witness ==
    /\ pc = "done" /\ entry = "fallback"
    /\ calls = <<"http", "scraper">>
    /\ data = <<>>
    /\ Len(result) = 1 /\ result[1].origin = "scraper"

\* C4: whenever the HTTP client returns an empty result,
\* fetch_stock_data_with_fallback calls the scraper exactly once and
\* returns what it produced: the empty sequence when the scraper yields
\* nothing, cannot be imported or throws (the construction of the scraper
\* object included); no exception leaves it.
C4_ScraperOnceNeverRaises ==
    (entry = "fallback" /\ HttpReturnedEmpty) =>
        /\ raised = "none"
        /\ pc = "done" =>
             /\ TimesCalled("scraper") = 1
             /\ IF phase = "Extracted"
                THEN /\ Len(result) = 1
                     /\ result[1].origin = "scraper"
                     /\ result[1].close = scraped[1].value.v[1]
                ELSE result = <<>>
             /\ phase \in {"NoScraper", "Failed", "Extracted"}

C4_Witness ==
    /\ pc = "done" /\ entry = "fallback" /\ HttpReturnedEmpty
    /\ TimesCalled("scraper") = 1
    /\ caught = "ScriptError" /\ phase = "NoScraper"
    /\ result = <<>> /\ raised = "none"

\* The steps scrape_vndirect_index took, as pairs of states.
Steps == {<<phases[k], phases[k + 1]>> : k \in 1..(Len(phases) - 1)}
\* The in-page extraction came back well formed, without an error and
\* without a value.
YieldedNoValue ==
    /\ js # None
    /\ js[1].t \in {"json_obj", "dict"}
    /\ ~js[1].err
    /\ ~(js[1].d.value.key /\ js[1].d.value.v # None /\ js[1].d.value.v[1] # 0)

\* C9, as claimed: every run follows Idle -> PageLoading -> Extracting ->
\* {Extracted | HtmlFallback -> {Extracted | Failed}}; HtmlFallback is
\* entered only from Extracting when extraction yielded no value, and
\* Failed only from HtmlFallback.
C9_FailedOnlyFromHtmlFallback ==
    /\ phases # <<>> => phases[1] = "Idle"
    /\ Steps \subseteq
         {<<"Idle", "PageLoading">>, <<"PageLoading", "Extracting">>,
          <<"Extracting", "Extracted">>, <<"Extracting", "HtmlFallback">>,
          <<"HtmlFallback", "Extracted">>, <<"HtmlFallback", "Failed">>}
    /\ (\E k \in 1..Len(phases) : phases[k] = "HtmlFallback") => YieldedNoValue


InPhases(p) == \E k \in 1..Len(phases) : phases[k] = p

\* C9, amended: every run follows Idle -> PageLoading -> {Extracting |
\* Failed}, Extracting -> {Extracted | HtmlFallback | Failed},
\* HtmlFallback -> {Extracted | Failed}.  HtmlFallback is entered only
\* from Extracting and only when extraction yielded no value; Failed is
\* also reached directly from PageLoading (a browser call throws) and from
\* Extracting (the script call throws or returns an error string, an
\* unparseable or unexpected result or an error payload), and in no case
\* when extraction came back with a value.
C9_StateMachine ==
    /\ phases # <<>> => phases[1] = "Idle"
    /\ Steps \subseteq
         {<<"Idle", "PageLoading">>, <<"PageLoading", "Extracting">>,
          <<"PageLoading", "Failed">>,
          <<"Extracting", "Extracted">>, <<"Extracting", "HtmlFallback">>,
          <<"Extracting", "Failed">>,
          <<"HtmlFallback", "Extracted">>, <<"HtmlFallback", "Failed">>}
    /\ InPhases("HtmlFallback") => YieldedNoValue
    /\ <<"Extracting", "Failed">> \in Steps => ~YieldedNoValue
    /\ <<"Extracting", "Failed">> \in Steps =>
         ~(js[1].t \in {"json_obj", "dict"} /\ ~js[1].err)
    /\ <<"PageLoading", "Failed">> \in Steps => js = None

C9_Witness ==
    /\ phases = <<"Idle", "PageLoading", "Extracting", "HtmlFallback", "Failed">>
    /\ YieldedNoValue
    /\ page # None /\ page[1].t = "html"

\* The numbers _extract_from_html looks at, in the order it does.
RECURSIVE Parsed(_)
Parsed(matches) ==
    IF matches = <<>> THEN <<>> ELSE <<ParseFloat(Head(matches))>> \o Parsed(Tail(matches))
Candidates == Parsed(SymbolMatches(page[1].html, 1) \o BareMatches(page[1].html, 1))
Plausible(v) == 500 * 1000 <= v /\ v <= 2000 * 1000

\* C10: whatever the page text, a value _extract_from_html returns lies in
\* [500, 2000]; a candidate outside the range is passed over and the
\* search goes on, so the value is the first candidate in range; the
\* result carries change 0, changePercent 0 and the partial-data note;
\* with no candidate in range nothing is returned.
C10_HtmlValueInRange ==
    (pc = "scrape" /\ page # None /\ page[1].t = "html") =>
        /\ scraped = None <=> \A k \in 1..Len(Candidates) : ~Plausible(Candidates[k])
        /\ scraped # None =>
             /\ scraped[1].value.key /\ scraped[1].value.v # None
             /\ Plausible(scraped[1].value.v[1])
             /\ \E k \in 1..Len(Candidates) :
                  /\ Candidates[k] = scraped[1].value.v[1]
                  /\ \A m \in 1..(k - 1) : ~Plausible(Candidates[m])
             /\ scraped[1].change = Key(Some(0))
             /\ scraped[1].changePercent = Key(Some(0))
             /\ scraped[1].note = Key(Some("Partial data extracted from HTML"))

\* The page holds 5000.00 before 500.00: the first is passed over.
C10_Witness ==
    /\ pc = "scrape" /\ page # None /\ page[1].t = "html"
    /\ Len(Candidates) >= 2
    /\ Candidates[1] = 5000 * 1000
    /\ scraped # None /\ scraped[1].value.v = Some(500 * 1000)

\* What the extraction that ran handed to fetch_stock_data_safari: the
\* in-page script's dict, or the hit of the HTML search.
Extraction ==
    IF InPhases("HtmlFallback") THEN try_alternative_extraction(page[1])
    ELSE Some(js[1].d)

ScraperRowLists ==
    {<<SafariRow(d)>> : d \in FoundDicts \cup {HtmlHit(v) : v \in ScrapedValues}}
CalcData == (ApiData \ {<<>>}) \cup ScraperRowLists

CInit ==
    /\ crows \in CalcData
    /\ cpc = "rows"
    /\ cout = NoChange
    /\ cagain = NoChange
    /\ ctitle = AppName

\* main.py:100-119
Compute ==
    /\ COnly
    /\ cpc = "rows"
    /\ cout' = compute_change(crows)
    /\ cpc' = "computed"
    /\ UNCHANGED <<crows, cagain, ctitle>>

\* The same rows once more.
Recompute ==
    /\ COnly
    /\ cpc = "computed"
    /\ cagain' = compute_change(crows)
    /\ cpc' = "again"
    /\ UNCHANGED <<crows, cout, ctitle>>

Indexes == {"VNINDEX", "VN30", "HNX"}

\* main.py:122-127
RenderLine ==
    /\ COnly
    /\ cpc = "again"
    /\ \E use_safari \in BOOLEAN, index \in Indexes :
         ctitle' = ValueTitle(use_safari, index, cout)
    /\ cpc' = "shown"
    /\ UNCHANGED <<crows, cout, cagain>>

CNext == Compute \/ Recompute \/ RenderLine

CalcInit == CInit /\ ROff /\ AOff

SpecCalc == CalcInit /\ [][CNext]_vars

\* ---------------------------------- claims about the change calculation
NoExplicit(row) == row.change = None /\ row.changePercent = None
BothExplicit(row) == row.change # None /\ row.changePercent # None
Magnitude(x) == IF x < 0 THEN -x ELSE x

\* C7: for a non-empty row list whose last row carries no explicit change
\* fields, latest is the close of the last row, the prior close is the
\* close of the row before it when there are two rows or more and the
\* open of the last row otherwise, change = latest - prior close,
\* changePercent = change / prior close * 100, and a second computation
\* on the same rows gives the same.
C7_ChangeFromCloses ==
    (cpc \in {"again", "shown"} /\ NoExplicit(crows[Len(crows)])) =>
        LET n == Len(crows)
            prior == IF n >= 2 THEN crows[n - 1].close ELSE crows[n].open
        IN  /\ cout.latest_value = crows[n].close
            /\ cout.prev_close = prior
            /\ cout.change = crows[n].close - prior
            /\ cout.change_pct = [n |-> (crows[n].close - prior) * 100, d |-> prior]
            /\ cagain = cout

\* One row, open 90 and close 95: change 5, 5.56 %.
C7_Witness ==
    /\ cpc = "shown"
    /\ Len(crows) = 1 /\ NoExplicit(crows[1])
    /\ crows[1].open = 90 * 1000 /\ crows[1].close = 95 * 1000
    /\ cout.change = 5 * 1000
    /\ ctitle.pct = 556 /\ ctitle.trend = "up"

\* C8: when the last row carries explicit change and changePercent, the
\* line shows the absolute value of the explicit changePercent, and the
\* trend icon is up when the explicit change is >= 0 and down when it is
\* negative, whatever the close and open values are.
C8_ExplicitFieldsShown ==
    (cpc = "shown" /\ BothExplicit(crows[Len(crows)])) =>
        LET row == crows[Len(crows)]
        IN  /\ ctitle.pct * 10 = Magnitude(row.changePercent[1])
            /\ ctitle.trend = IF row.change[1] >= 0 THEN "up" ELSE "down"

\* Closes rise from 100 to 110 while the last row says -2 and -1.5 %.
C8_Witness ==
    /\ cpc = "shown"
    /\ Len(crows) = 2
    /\ crows[1].close = 100 * 1000 /\ crows[2].close = 110 * 1000
    /\ crows[2].change = <<-2000>> /\ crows[2].changePercent = <<-1500>>
    /\ ctitle.trend = "down" /\ ctitle.pct = 150

\* ------------------------------------------------------ the application
\* What the data sources do in the application's runs: the API is down,
\* or answers with no rows or with two; the scraper cannot be imported,
\* finds nothing, or finds the index.
AppResponses ==
    {[net |-> "down", status |-> 0, body |-> [json |-> FALSE, data |-> None]],
     [net |-> "up", status |-> HTTP_OK, body |-> [json |-> TRUE, data |-> Some(<<>>)]],
     [net |-> "up", status |-> HTTP_OK,
      body |-> [json |-> TRUE,
                data |-> Some(<<Row(Milli(90), Milli(100), Milli(90), Milli(100), "day",
                                    None, None, None, "api"),
                                Row(Milli(100), Milli(100), Milli(95), Milli(95), "day",
                                    None, None, None, "api")>>)]]}

AppEnvs ==
    {Env(FALSE, TRUE, None), Env(TRUE, TRUE, None),
     Env(TRUE, TRUE,
         Some(Scraped(Key(Some(Milli(1250) + 500)), Key(Some(Milli(3))), Key(Some(2250)),
                      JsSource, Absent)))}

\* A thread running fetch_index: where it is, its locals, and what became
\* of it (err: the exception raised in it, writes: how often it set the
\* title, escaped: an exception left fetch_index).
Cycle(at, symbol, c, origin, err, writes, escaped) ==
    [pc |-> at, symbol |-> symbol, c |-> c, origin |-> origin, err |-> err,
     writes |-> writes, escaped |-> escaped]

NewCycle == Cycle("begin", "", NoChange, "none", "none", 0, FALSE)

AInit ==
    /\ current_index = "VNINDEX"
    /\ use_safari_scraper = FALSE
    /\ title = AppName
    /\ cycles = <<NewCycle>>
    /\ started = 1

\* A trigger that would stop the threads still running before it starts
\* its own.
update_index_value_cancelling ==
    /\ started < MaxCycles
    /\ started' = started + 1
    /\ cycles' = Append([i \in 1..Len(cycles) |->
                            IF cycles[i].pc = "done" THEN cycles[i]
                            ELSE Cycle("done", "", NoChange, "none", "none",
                                       cycles[i].writes, FALSE)],
                        NewCycle)

\* update_index_value: start a thread on fetch_index and return.
update_index_value ==
    /\ started < MaxCycles
    /\ started' = started + 1
    /\ cycles' = Append(cycles, NewCycle)

\* rumps.Timer(self.update_index_value, 60)
timer_tick ==
    /\ AOnly
    /\ update_index_value
    /\ UNCHANGED <<current_index, use_safari_scraper, title>>

set_vnindex ==
    /\ AOnly
    /\ current_index' = "VNINDEX"
    /\ update_index_value
    /\ UNCHANGED <<use_safari_scraper, title>>

set_vn30 ==
    /\ AOnly
    /\ current_index' = "VN30"
    /\ update_index_value
    /\ UNCHANGED <<use_safari_scraper, title>>

set_hnx ==
    /\ AOnly
    /\ current_index' = "HNX"
    /\ update_index_value
    /\ UNCHANGED <<use_safari_scraper, title>>

toggle_safari_scraper ==
    /\ AOnly
    /\ use_safari_scraper' = TRUE
    /\ update_index_value
    /\ UNCHANGED <<current_index, title>>

toggle_api_only ==
    /\ AOnly
    /\ use_safari_scraper' = FALSE
    /\ update_index_value
    /\ UNCHANGED <<current_index, title>>

manual_refresh ==
    /\ AOnly
    /\ update_index_value
    /\ UNCHANGED <<current_index, use_safari_scraper, title>>

\* main.py:79, `symbol = self.current_index`.
Begin(i) ==
    /\ AOnly
    /\ cycles[i].pc = "begin"
    /\ cycles' = [cycles EXCEPT ![i].pc = "fetch", ![i].symbol = current_index]
    /\ UNCHANGED <<current_index, use_safari_scraper, title, started>>

\* The exception a retrieval ends in, main.py:96-97 included.
CycleError(got) ==
    IF got.raised # "none" THEN got.raised
    ELSE IF got.val = <<>> THEN "NoData"
    ELSE "none"

\* main.py:88-119: the retrieval under the preference read now, and the
\* change computed from its rows.
Fetch(i) ==
    /\ AOnly
    /\ cycles[i].pc = "fetch"
    /\ \E r \in AppResponses, env \in AppEnvs :
         LET got == Retrieve(use_safari_scraper, r, env)
             err == CycleError(got)
         IN  cycles' =
               [cycles EXCEPT ![i] =
                  IF err = "none"
                  THEN Cycle("render", @.symbol, compute_change(got.val),
                             Last(got.val).origin, "none", @.writes, FALSE)
                  ELSE IF Catches(err)
                  THEN Cycle("except", @.symbol, NoChange, "none", err, @.writes, FALSE)
                  ELSE Cycle("done", "", NoChange, "none", err, @.writes, TRUE)]
    /\ UNCHANGED <<current_index, use_safari_scraper, title, started>>

\* main.py:122-127
Render(i) ==
    /\ AOnly
    /\ cycles[i].pc = "render"
    /\ title' = ValueTitle(use_safari_scraper, current_index, cycles[i].c)
    /\ cycles' = [cycles EXCEPT ![i] =
                    Cycle("done", "", NoChange, "none", "none", @.writes + 1, FALSE)]
    /\ UNCHANGED <<current_index, use_safari_scraper, started>>

\* main.py:129-132
Except(i) ==
    /\ AOnly
    /\ cycles[i].pc = "except"
    /\ title' = ErrorTitle(use_safari_scraper, current_index)
    /\ cycles' = [cycles EXCEPT ![i] =
                    Cycle("done", "", NoChange, "none", @.err, @.writes + 1, FALSE)]
    /\ UNCHANGED <<current_index, use_safari_scraper, started>>

BeginSome == \E i \in 1..started : Begin(i)
FetchSome == \E i \in 1..started : Fetch(i)
RenderSome == \E i \in 1..started : Render(i)
ExceptSome == \E i \in 1..started : Except(i)

ANext ==
    \/ timer_tick
    \/ set_vnindex
    \/ set_vn30
    \/ set_hnx
    \/ toggle_safari_scraper
    \/ toggle_api_only
    \/ manual_refresh
    \/ BeginSome
    \/ FetchSome
    \/ RenderSome
    \/ ExceptSome

AppInit == AInit /\ ROff /\ COff

SpecApp == AppInit /\ [][ANext]_vars

\* The same with the threads scheduled: a started thread (main.py:73-74)
\* is run by the interpreter until fetch_index returns.
SpecAppFair ==
    /\ SpecApp
    /\ WF_vars(BeginSome)
    /\ WF_vars(FetchSome)
    /\ WF_vars(RenderSome)
    /\ WF_vars(ExceptSome)

\* ------------------------------------------ claims about the application
Finishes(i) == cycles[i].pc # "done" /\ cycles'[i].pc = "done"

\* C5: every fetch_index cycle ends having written the title exactly once
\* and lets no exception escape; when its source returned nothing or a
\* step raised, the title it writes is the error indicator with the icon
\* of the source preference in force, otherwise the formatted value line.
C5_CycleWritesTitleOnce ==
    /\ [](\A i \in 1..started :
            /\ cycles[i].writes <= 1
            /\ cycles[i].pc = "done" => (cycles[i].writes = 1 /\ ~cycles[i].escaped))
    /\ [][\A i \in 1..started :
            Finishes(i) =>
                /\ cycles'[i].writes = cycles[i].writes + 1
                /\ IF cycles[i].err # "none"
                   THEN /\ title'.kind = "error"
                        /\ title'.icon = (IF use_safari_scraper THEN "globe" ELSE "antenna")
                   ELSE /\ title'.kind = "value"
                        /\ title'.value * 10 = cycles[i].c.latest_value]_vars

\* A cycle whose request failed on the network has ended, and the title
\* is the error indicator.
C5_Witness ==
    \E i \in 1..started :
        /\ cycles[i].pc = "done" /\ cycles[i].err = "ConnectionError"
        /\ cycles[i].writes = 1
        /\ title.kind = "error"

\* C6: under any interleaving, once a cycle that obtained no data has
\* finished, the title is not replaced by a value that a cycle started
\* before it computed.
C6_NoStaleValueAfterError ==
    [][\A i \in 1..started, j \in 1..started :
         (j < i /\ cycles[i].pc = "done" /\ cycles[i].err # "none") =>
             ~(cycles[j].pc = "render" /\ cycles'[j].pc = "done"
               /\ title'.kind = "value")]_vars

\* A handler or the timer has run: one more thread was started.
Triggered == started' = started + 1
InFlight(i) == i <= started /\ cycles[i].pc # "done"
WroteOnce(i) == i <= started /\ cycles[i].pc = "done" /\ cycles[i].writes = 1

\* C12: every trigger (timer tick, index selection, preference toggle,
\* manual refresh) adds exactly one cycle, which has made no call yet, and
\* does nothing else: it writes no title and leaves every cycle already
\* running as it was; no trigger waits for running cycles (each is enabled
\* whatever the running cycles are doing, while fewer than MaxCycles were
\* started); and every cycle in flight goes on to finish, having written
\* the title once, whatever triggers and selection changes come after it.
C12_TriggersStartCyclesNeverCancel ==
    /\ [][Triggered =>
            /\ Len(cycles') = Len(cycles) + 1
            /\ cycles'[started'] = NewCycle
            /\ \A i \in 1..started : cycles'[i] = cycles[i]
            /\ title' = title]_vars
    /\ [](started < MaxCycles =>
            /\ ENABLED timer_tick
            /\ ENABLED set_vnindex /\ ENABLED set_vn30 /\ ENABLED set_hnx
            /\ ENABLED toggle_safari_scraper /\ ENABLED toggle_api_only
            /\ ENABLED manual_refresh)
    /\ \A i \in 1..MaxCycles :
          InFlight(i) ~> WroteOnce(i)

\* Two cycles overlap: the first has fetched and not yet written when the
\* second, started by a selection change, has fetched as well.
C12_Witness ==
    /\ started = 2
    /\ cycles[1].pc = "render" /\ cycles[2].pc = "render"
    /\ cycles[1].symbol = "VNINDEX" /\ cycles[2].symbol = "VN30"

\* Cycle i sets self.title in this step.
Writes(i) == i <= started /\ cycles'[i].writes = cycles[i].writes + 1

\* C13: in every status line a cycle writes, value line or error line, the
\* index named is the symbol the cycle read at its start and fetched data
\* for, also when the selection was changed while the cycle was running.
C13_TitleNamesFetchedSymbol ==
    [][\A i \in 1..MaxCycles :
         Writes(i) => title'.index = cycles[i].symbol]_vars

\* The icon that names a source.
IconOf(origin) == IF origin = "scraper" THEN "globe" ELSE "antenna"

\* C14: in every value line a cycle writes, the source icon is that of the
\* source which produced the rows the line is built from: the scraper icon
\* for scraper rows, the API icon for API rows, also when the scraper was
\* reached through the API-first fallback and when the preference was
\* toggled while the cycle was running.
C14_IconNamesRowSource ==
    [][\A i \in 1..MaxCycles :
         (Writes(i) /\ title'.kind = "value") =>
             title'.icon = IconOf(cycles[i].origin)]_vars

====
